---------------------------- MODULE Spec2Model ----------------------------
(***************************************************************************)
(* PDF rule checker backend (backend/src/index.js): provider resolution at *)
(* startup, the heuristic evaluator buildFallbackResult, the normalizer    *)
(* parseLLMJson, the per-rule orchestrator evaluateRuleWithLLM and the     *)
(* POST /api/check handler with its Promise.all fan-out.                   *)
(*                                                                         *)
(* A JavaScript string is a sequence of one-character strings, so that     *)
(* trim, toLowerCase, match, includes and split are computed and not       *)
(* assumed.  A JSON number is kept in tenths (132.7 is 1327).  An LLM      *)
(* payload is a sequence of lexemes (braces, prose, an object body).       *)
(***************************************************************************)
EXTENDS Integers, Sequences, FiniteSets, TLC

VARIABLES
    openai,             \* the OpenAI client is instantiated (line 25)
    mistral,            \* the Mistral client is instantiated (line 26)
    groq,               \* the Groq client is instantiated (line 27)
    activeProvider,     \* line 23
    activeModel,        \* line 24
    pc,                 \* position of the /api/check handler
    req,                \* the request being handled
    normalizedRules,    \* line 310
    effectiveProvider,  \* line 325
    documentText,       \* line 331
    pageCount,          \* line 330
    evaluations,        \* the promises handed to Promise.all (line 339)
    response            \* what res.status(..).json(..) sent

vars == <<openai, mistral, groq, activeProvider, activeModel, pc, req,
          normalizedRules, effectiveProvider, documentText, pageCount,
          evaluations, response>>

-----------------------------------------------------------------------------
(* Bounds of the exploration *)

\* longest submitted rule list that is enumerated exhaustively
MaxShort == 2

-----------------------------------------------------------------------------
(* Strings *)

HEURISTIC == <<"h","e","u","r","i","s","t","i","c">>
OPENAI == <<"o","p","e","n","a","i">>
MISTRAL == <<"m","i","s","t","r","a","l">>
GROQ == <<"g","r","o","q">>
PASS == <<"p","a","s","s">>
FAIL == <<"f","a","i","l">>

UpperCase == <<"A","B","C","D","E","F","G","H","I","J","K","L","M","N","O","P","Q","R","S","T","U","V","W","X","Y","Z">>
LowerCase == <<"a","b","c","d","e","f","g","h","i","j","k","l","m","n","o","p","q","r","s","t","u","v","w","x","y","z">>
Digits == {"0", "1", "2", "3", "4", "5", "6", "7", "8", "9"}
WhiteSpace == {" ", "\n", "\t"}
NUL == "NUL"

\* String.prototype.toLowerCase, one character
LowerChar(c) ==
    IF \E i \in DOMAIN UpperCase : UpperCase[i] = c
    THEN LowerCase[CHOOSE i \in DOMAIN UpperCase : UpperCase[i] = c]
    ELSE c

toLowerCase(s) == [i \in DOMAIN s |-> LowerChar(s[i])]

\* String.prototype.trim
trim(s) ==
    LET keep == {i \in DOMAIN s : s[i] \notin WhiteSpace}
    IN  IF keep = {} THEN <<>>
        ELSE SubSeq(s, CHOOSE i \in keep : \A j \in keep : i <= j,
                       CHOOSE i \in keep : \A j \in keep : j <= i)

\* String.prototype.includes
includes(text, word) ==
    \E i \in 0..(Len(text) - Len(word)) :
        \A j \in 1..Len(word) : text[i + j] = word[j]

\* String.prototype.indexOf / lastIndexOf of one element, 0-based, -1 if absent
indexOf(s, c) ==
    IF \E i \in DOMAIN s : s[i] = c
    THEN (CHOOSE i \in DOMAIN s : s[i] = c /\ \A j \in 1..(i - 1) : s[j] # c) - 1
    ELSE -1

lastIndexOf(s, c) ==
    IF \E i \in DOMAIN s : s[i] = c
    THEN (CHOOSE i \in DOMAIN s : s[i] = c /\ \A j \in (i + 1)..Len(s) : s[j] # c) - 1
    ELSE -1

\* String.prototype.slice(from, to) for 0 <= from, 0 <= to
slice(s, from, to) ==
    IF to > Len(s) THEN SubSeq(s, from + 1, Len(s)) ELSE SubSeq(s, from + 1, to)

\* replace(/\s+/g, ' ')
RECURSIVE CollapseFrom(_, _)
CollapseFrom(s, i) ==
    IF i > Len(s) THEN <<>>
    ELSE IF s[i] \in WhiteSpace
         THEN IF i > 1 /\ s[i - 1] \in WhiteSpace
              THEN CollapseFrom(s, i + 1)
              ELSE <<" ">> \o CollapseFrom(s, i + 1)
         ELSE <<s[i]>> \o CollapseFrom(s, i + 1)

collapseWhitespace(s) == CollapseFrom(s, 1)

\* replace(/\u0000/g, '')
removeNul(s) == SelectSeq(s, LAMBDA c : c # NUL)

\* Array.prototype.join
RECURSIVE join(_, _)
join(parts, sep) ==
    IF parts = <<>> THEN <<>>
    ELSE IF Len(parts) = 1 THEN parts[1]
    ELSE parts[1] \o sep \o join(Tail(parts), sep)

\* match(/[a-z0-9]+/g) || [] : the maximal runs of lowercase letters and digits
IsAlnum(c) == c \in Digits \/ \E i \in DOMAIN LowerCase : LowerCase[i] = c

RECURSIVE WordsFrom(_, _, _)
WordsFrom(s, i, cur) ==
    IF i > Len(s) THEN (IF cur = <<>> THEN <<>> ELSE <<cur>>)
    ELSE IF IsAlnum(s[i]) THEN WordsFrom(s, i + 1, Append(cur, s[i]))
    ELSE (IF cur = <<>> THEN <<>> ELSE <<cur>>) \o WordsFrom(s, i + 1, <<>>)

matchWords(s) == WordsFrom(s, 1, <<>>)

-----------------------------------------------------------------------------
(* Heuristic evaluator *)

SentenceEnd == {".", "!", "?"}

\* split(/(?<=[.!?])\s+/) of a text whose whitespace runs are single spaces
RECURSIVE SplitFrom(_, _, _)
SplitFrom(s, i, cur) ==
    IF i > Len(s) THEN <<cur>>
    ELSE IF s[i] \in WhiteSpace /\ i > 1 /\ s[i - 1] \in SentenceEnd
         THEN <<cur>> \o SplitFrom(s, i + 1, <<>>)
         ELSE SplitFrom(s, i + 1, Append(cur, s[i]))

sentenceSplitter(text) ==
    SelectSeq(SplitFrom(collapseWhitespace(text), 1, <<>>), LAMBDA x : x # <<>>)

KeywordMinLength == 4
KeywordCap == 6
PassConfidence == 55
FailConfidence == 35
NoEvidence == <<"N","o"," ","d","i","r","e","c","t"," ","e","v","i","d","e","n","c","e"," ","f","o","u","n","d",".">>
NotFoundReasoning == <<"K","e","y","w","o","r","d","s"," ","f","r","o","m"," ","t","h","e"," ","r","u","l","e"," ","w","e","r","e"," ","n","o","t"," ","f","o","u","n","d"," ","i","n"," ","t","h","e"," ","d","o","c","u","m","e","n","t"," ","t","e","x","t",".">>

\* words.filter((word) => word.length > 4).slice(0, 6)
\* the keywords without the cap of six
KeywordsUncapped(rule) ==
    SelectSeq(matchWords(toLowerCase(trim(rule))),
              LAMBDA w : Len(w) > KeywordMinLength)

Keywords(rule) ==
    slice(SelectSeq(matchWords(toLowerCase(trim(rule))),
                    LAMBDA w : Len(w) > KeywordMinLength), 0, KeywordCap)

\* keywords.filter((keyword) => text.includes(keyword))
Matches(rule, text) ==
    SelectSeq(Keywords(rule), LAMBDA k : includes(toLowerCase(text), k))

\* the threshold without its floor of one match
ThresholdNoFloor(n) == (2 * n + 4) \div 5

\* Math.max(1, Math.ceil(keywords.length * 0.4)); ceil(2n/5) = (2n + 4) \div 5
Threshold(n) ==
    LET c == (2 * n + 4) \div 5 IN IF c > 1 THEN c ELSE 1

HeuristicStatus(rule, text) ==
    IF Len(Matches(rule, text)) >= Threshold(Len(Keywords(rule)))
    THEN PASS ELSE FAIL

\* the evidence taken from the head of the document, whichever sentence matched
EvidenceFromHead(rule, text) ==
    LET sentences == sentenceSplitter(text)
    IN  IF Matches(rule, text) # <<>> /\ sentences # <<>>
        THEN sentences[1] ELSE NoEvidence

\* sentences.find(...) || 'No direct evidence found.'
Evidence(rule, text) ==
    LET matches == Matches(rule, text)
        sentences == sentenceSplitter(text)
        hit == {i \in DOMAIN sentences :
                   \E m \in DOMAIN matches :
                       includes(toLowerCase(sentences[i]), toLowerCase(matches[m]))}
    IN  IF matches # <<>> /\ hit # {}
        THEN LET first == sentences[CHOOSE i \in hit : \A j \in hit : i <= j]
             IN  IF first = <<>> THEN NoEvidence ELSE first
        ELSE NoEvidence

HeuristicConfidence(status) ==
    IF status = PASS THEN PassConfidence ELSE FailConfidence

HeuristicReasoning(rule, text, status) ==
    IF status = PASS
    THEN LET joined == join(Matches(rule, text), <<","," ">>)
         IN  <<"H","e","u","r","i","s","t","i","c"," ","m","a","t","c","h"," ","f","o","r"," ","k","e","y","w","o","r","d","s",":"," ">>
             \o (IF joined = <<>> THEN <<"n","/","a">> ELSE joined) \o <<".">>
    ELSE NotFoundReasoning

JString(s) == [type |-> "string", s |-> s]

buildFallbackResult(rule, text) ==
    LET status == HeuristicStatus(rule, text)
    IN  [rule       |-> trim(rule),
         status     |-> status,
         evidence   |-> JString(Evidence(rule, text)),
         reasoning  |-> JString(HeuristicReasoning(rule, text, status)),
         confidence |-> HeuristicConfidence(status),
         source     |-> HEURISTIC]

-----------------------------------------------------------------------------
(* JSON values, as JSON.parse yields them *)

Undefined == [type |-> "undefined"]
JNull == [type |-> "null"]
JNumber(tenths) == [type |-> "number", n10 |-> tenths]
JBool(b) == [type |-> "boolean", b |-> b]
JObject == [type |-> "object"]
JArray(items) == [type |-> "array", items |-> items]

\* what `!v` and `v || w` test
Truthy(v) ==
    CASE v.type = "string" -> v.s # <<>>
      [] v.type = "number" -> v.n10 # 0
      [] v.type = "boolean" -> v.b
      [] v.type \in {"object", "array"} -> TRUE
      [] OTHER -> FALSE

\* v || w
OrElse(v, w) == IF Truthy(v) THEN v ELSE w

\* Math.round of a number given in tenths: floor(x + 0.5)
MathRound(tenths) == (tenths + 5) \div 10

MathMin(a, b) == IF a < b THEN a ELSE b
MathMax(a, b) == IF a > b THEN a ELSE b

ConfidenceFloor == 0
ConfidenceCeiling == 100

-----------------------------------------------------------------------------
(* Response normalizer *)

\* lexemes of an LLM text payload
LBrace == [lex |-> "{"]
RBrace == [lex |-> "}"]
Prose == [lex |-> "prose"]
NewLine == [lex |-> "newline"]
BareMembers == [lex |-> "bare"]
Members(obj) == [lex |-> "members", obj |-> obj]

\* JSON.parse of a payload slice: an object, or a SyntaxError
JSONparse(text) ==
    LET t == SelectSeq(text, LAMBDA x : x # NewLine)
    IN  IF t = <<LBrace, RBrace>>
        THEN [threw |-> FALSE,
              value |-> [status |-> Undefined, evidence |-> Undefined,
                         reasoning |-> Undefined, confidence |-> Undefined,
                         rule |-> Undefined]]
        ELSE IF Len(t) = 3 /\ t[1] = LBrace /\ t[3] = RBrace /\ t[2].lex = "members"
        THEN [threw |-> FALSE, value |-> t[2].obj]
        ELSE [threw |-> TRUE]

\* parsed.status?.toLowerCase(): undefined on null/undefined, a TypeError on a
\* value that has no toLowerCase method
StatusLower(v) ==
    IF v.type \in {"undefined", "null"} THEN [threw |-> FALSE, value |-> Undefined]
    ELSE IF v.type = "string" THEN [threw |-> FALSE, value |-> JString(toLowerCase(v.s))]
    ELSE [threw |-> TRUE]

\* lines 128-131
NormalizeConfidence(v, fallback) ==
    IF v.type = "number"
    THEN MathMin(ConfidenceCeiling, MathMax(ConfidenceFloor, MathRound(v.n10)))
    ELSE fallback.confidence

\* the try block of parseLLMJson (lines 117-133)
ParseBody(content, fallback, source) ==
    LET start == indexOf(content, LBrace)
        end == lastIndexOf(content, RBrace)
    IN  IF start = -1 \/ end = -1 THEN [threw |-> FALSE, value |-> fallback]
        ELSE LET parsed == JSONparse(slice(content, start, end + 1))
             IN  IF parsed.threw THEN [threw |-> TRUE]
                 ELSE LET st == StatusLower(parsed.value.status)
                      IN  IF st.threw THEN [threw |-> TRUE]
                          ELSE [threw |-> FALSE,
                                value |->
                                  [rule       |-> fallback.rule,
                                   status     |-> IF st.value = JString(PASS)
                                                  THEN PASS ELSE FAIL,
                                   evidence   |-> OrElse(parsed.value.evidence,
                                                         fallback.evidence),
                                   reasoning  |-> OrElse(parsed.value.reasoning,
                                                         fallback.reasoning),
                                   confidence |-> NormalizeConfidence(
                                                      parsed.value.confidence, fallback),
                                   source     |-> source]]

\* a catch that stamps the backend's tag on the fallback it returns
parseLLMJsonTagged(content, fallback, source) ==
    LET r == ParseBody(content, fallback, source)
    IN  IF r.threw THEN [fallback EXCEPT !.source = source] ELSE r.value

\* try { ... } catch (error) { return fallback; }
parseLLMJson(content, fallback, source) ==
    LET r == ParseBody(content, fallback, source)
    IN  IF r.threw THEN fallback ELSE r.value

-----------------------------------------------------------------------------
(* Provider resolution at startup *)

\* the value of `process.env.<envVar> || '<default>'`
ModelId(envVar, default) == [envVar |-> envVar, default |-> default]
HeuristicModel == ModelId("none", "heuristic")
OpenAIModel == ModelId("OPENAI_MODEL", "gpt-4o-mini")
MistralModel == ModelId("MISTRAL_MODEL", "mistral-medium-latest")
GroqModel == ModelId("GROQ_MODEL", "openai/gpt-oss-20b")

\* lines 23-27
NoProvider ==
    [openai |-> FALSE, mistral |-> FALSE, groq |-> FALSE,
     activeProvider |-> HEURISTIC, activeModel |-> HeuristicModel]

resolveOpenAI(env, reg) ==
    IF ~env.OPENAI_API_KEY THEN reg
    ELSE [reg EXCEPT !.openai = TRUE, !.activeProvider = OPENAI,
                     !.activeModel = OpenAIModel]

resolveMistral(env, reg) ==
    IF ~env.MISTRAL_API_KEY THEN reg
    ELSE [reg EXCEPT !.mistral = TRUE, !.activeProvider = MISTRAL,
                     !.activeModel = MistralModel]

resolveGroq(env, reg) ==
    IF ~env.GROQ_API_KEY THEN reg
    ELSE [reg EXCEPT !.groq = TRUE, !.activeProvider = GROQ,
                     !.activeModel = GroqModel]

\* process.env.LLM_PROVIDER?.toLowerCase()
providerPreference(env) ==
    IF env.LLM_PROVIDER.type = "string"
    THEN JString(toLowerCase(env.LLM_PROVIDER.s)) ELSE Undefined


\* a startup that instantiates a client for every key it finds
StartupEveryKey(env) ==
    resolveGroq(env, resolveMistral(env, resolveOpenAI(env, NoProvider)))

\* lines 59-71
Startup(env) ==
    LET pref == providerPreference(env)
    IN  IF pref = JString(OPENAI) THEN resolveOpenAI(env, NoProvider)
        ELSE IF pref = JString(MISTRAL) THEN resolveMistral(env, NoProvider)
        ELSE IF pref = JString(GROQ) THEN resolveGroq(env, NoProvider)
        ELSE IF env.OPENAI_API_KEY THEN resolveOpenAI(env, NoProvider)
        ELSE IF env.MISTRAL_API_KEY THEN resolveMistral(env, NoProvider)
        ELSE IF env.GROQ_API_KEY THEN resolveGroq(env, NoProvider)
        ELSE NoProvider

\* the process environments explored: each key present (and not blank) or not
Environments ==
    [OPENAI_API_KEY : BOOLEAN, MISTRAL_API_KEY : BOOLEAN, GROQ_API_KEY : BOOLEAN,
     LLM_PROVIDER : {Undefined, JString(<<"o","p","e","n","a","i">>), JString(<<"M","i","s","t","r","a","l">>),
                     JString(<<"G","R","O","Q">>), JString(<<"h","e","u","r","i","s","t","i","c">>)}]

-----------------------------------------------------------------------------
(* Backend adapters: unwrapping the text payload of each response envelope *)

\* completion.choices?.[0]?.message?.content (lines 199, 214)
FirstChoice(completion) ==
    IF completion.choices = <<>> THEN Undefined ELSE completion.choices[1]

\* lines 199-202: the content, '' standing for every falsy content
extractOpenAIText(completion) ==
    LET content == FirstChoice(completion)
    IN  IF Truthy(content) THEN content.s ELSE <<>>

\* lines 214-222
extractMistralText(completion) ==
    LET messageContent == FirstChoice(completion)
    IN  IF messageContent.type = "string" THEN messageContent.s
        ELSE IF messageContent.type = "array"
        THEN join(messageContent.items, <<NewLine>>)
        ELSE <<>>

\* lines 139-161
extractGroqText(resp) ==
    IF resp.type = "null" THEN <<>>
    ELSE IF resp.output_text.type = "string" THEN resp.output_text.s
    ELSE IF resp.output_text.type = "array"
    THEN join(resp.output_text.items, <<NewLine>>)
    ELSE IF resp.output.type = "array"
    THEN join([i \in DOMAIN resp.output.items |->
                  join(resp.output.items[i], <<>>)], <<NewLine>>)
    ELSE <<>>

extractText(client, envelope) ==
    IF client = OPENAI THEN extractOpenAIText(envelope)
    ELSE IF client = MISTRAL THEN extractMistralText(envelope)
    ELSE extractGroqText(envelope)

-----------------------------------------------------------------------------
(* Evaluation orchestrator *)

\* the promise evaluateRuleWithLLM returned for one rule: its state, the
\* clients it has called, how the awaited call ended ("none" when no client was
\* called), the text payload unwrapped, the precomputed fallback and the verdict
Fulfilled(verdict) ==
    [st |-> "fulfilled", invoked |-> <<>>, call |-> "none", content |-> <<>>,
     fallback |-> verdict, result |-> verdict]
Pending(fallback, client) ==
    [st |-> "pending", invoked |-> <<client>>, call |-> "pending", content |-> <<>>,
     fallback |-> fallback, result |-> Undefined]

\* evaluateRuleWithLLM up to its first await (lines 164-186, 207-208, 231-232, 253)
EvalStart(rule, text, provider) ==
    LET effective == IF provider # <<>> THEN provider ELSE activeProvider
    IN  IF effective = HEURISTIC \/ (~openai /\ ~mistral /\ ~groq)
        THEN Fulfilled(buildFallbackResult(rule, text))
        ELSE LET fallback == buildFallbackResult(rule, text)
             IN  IF effective = OPENAI /\ openai THEN Pending(fallback, OPENAI)
                 ELSE IF effective = MISTRAL /\ mistral THEN Pending(fallback, MISTRAL)
                 ELSE IF effective = GROQ /\ groq THEN Pending(fallback, GROQ)
                 ELSE Fulfilled(fallback)

Throw == [kind |-> "throw"]
Resolve(envelope) == [kind |-> "resolve", value |-> envelope]

\* a try block that stamps the client's tag on the fallback it returns for an
\* empty payload
EvalBodyTagEmpty(e, reply) ==
    IF reply.kind = "throw" THEN [threw |-> TRUE, call |-> "threw", content |-> <<>>]
    ELSE LET client == e.invoked[Len(e.invoked)]
             content == extractText(client, reply.value)
         IN  IF content = <<>>
             THEN [threw |-> FALSE, call |-> "empty", content |-> content,
                   value |-> [e.fallback EXCEPT !.source = client]]
             ELSE [threw |-> FALSE, call |-> "text", content |-> content,
                   value |-> parseLLMJson(content, e.fallback, client)]

\* the try block after the await: the awaited call throws, or its payload is
\* unwrapped and, unless empty, normalized
EvalBody(e, reply) ==
    IF reply.kind = "throw" THEN [threw |-> TRUE, call |-> "threw", content |-> <<>>]
    ELSE LET client == e.invoked[Len(e.invoked)]
             content == extractText(client, reply.value)
         IN  IF content = <<>>
             THEN [threw |-> FALSE, call |-> "empty", content |-> content,
                   value |-> e.fallback]
             ELSE [threw |-> FALSE, call |-> "text", content |-> content,
                   value |-> parseLLMJson(content, e.fallback, client)]

\* a rule's promise whose error handler is missing: the error leaves the function
EvalSettleUncaught(e, reply) ==
    LET r == EvalBody(e, reply)
    IN  IF r.threw
        THEN [e EXCEPT !.st = "rejected", !.call = r.call, !.content = r.content]
        ELSE [e EXCEPT !.st = "fulfilled", !.call = r.call, !.content = r.content,
                       !.result = r.value]

\* an evaluation that calls its client a second time when the first call
\* throws or returns no text
EvalSettleRetry(e, reply) ==
    LET r == EvalBody(e, reply)
    IN  IF r.call \in {"threw", "empty"} /\ Len(e.invoked) < 2
        THEN [e EXCEPT !.invoked = Append(@, e.invoked[1])]
        ELSE [e EXCEPT !.st = "fulfilled", !.call = r.call, !.content = r.content,
                       !.result = IF r.threw THEN e.fallback ELSE r.value]

\* catch (error) { return fallback; } (lines 254-257)
EvalSettle(e, reply) ==
    LET r == EvalBody(e, reply)
    IN  [e EXCEPT !.st = "fulfilled", !.call = r.call, !.content = r.content,
                  !.result = IF r.threw THEN e.fallback ELSE r.value]

\* Promise.all: the fulfilled values, in the order of the promises (line 339)
PromiseAllReversed(promises) ==
    [i \in DOMAIN promises |-> promises[Len(promises) + 1 - i].result]

PromiseAll(promises) == [i \in DOMAIN promises |-> promises[i].result]

-----------------------------------------------------------------------------
(* PDF text extraction *)

TruncateLimit == 12000

\* lines 279-280
truncateText(text) ==
    IF Len(text) > TruncateLimit THEN slice(text, 0, TruncateLimit) ELSE text

\* textResult.text?.replace(/\s+/g, ' ').replace(/\u0000/g, '').trim() || ''
cleanText(raw) ==
    IF raw.type = "string" THEN trim(removeNul(collapseWhitespace(raw.s))) ELSE <<>>

\* textResult.total || null
PageCount(total) == IF total # 0 THEN JNumber(10 * total) ELSE JNull

\* lines 260-277: what the awaited extractTextFromPdf settles with
extractTextFromPdf(outcome) ==
    IF outcome.kind = "throw" THEN [threw |-> TRUE]
    ELSE [threw |-> FALSE,
          value |-> [text |-> cleanText(outcome.value.text),
                     pageCount |-> PageCount(outcome.value.total)]]

-----------------------------------------------------------------------------
(* POST /api/check *)

MaxRules == 10

\* a request field holding the JSON text of `value` (never the empty string)
JsonText(value) == [type |-> "jsontext", value |-> value]

FieldTruthy(v) == IF v.type = "jsontext" THEN TRUE ELSE Truthy(v)

\* lines 299-308: the array itself, JSON.parse of the field, or the field alone
ParseRules(rawRules) ==
    IF rawRules.type = "array" THEN rawRules
    ELSE IF rawRules.type = "jsontext" THEN rawRules.value
    ELSE JArray(<<rawRules>>)

\* the normalization without its slice(0, 10)
NormalizeRulesUncapped(rules) ==
    IF rules.type # "array" THEN [threw |-> TRUE]
    ELSE LET trimmed == [i \in DOMAIN rules.items |->
                            IF rules.items[i].type = "string"
                            THEN trim(rules.items[i].s) ELSE <<>>]
         IN  [threw |-> FALSE, value |-> SelectSeq(trimmed, LAMBDA r : r # <<>>)]

\* lines 310-313; `rules.map` is a TypeError when JSON.parse gave no array
NormalizeRules(rules) ==
    IF rules.type # "array" THEN [threw |-> TRUE]
    ELSE LET trimmed == [i \in DOMAIN rules.items |->
                            IF rules.items[i].type = "string"
                            THEN trim(rules.items[i].s) ELSE <<>>]
         IN  [threw |-> FALSE,
              value |-> slice(SelectSeq(trimmed, LAMBDA r : r # <<>>), 0, MaxRules)]

allowedProviders == {GROQ, MISTRAL, OPENAI, HEURISTIC}

\* lines 320-323
RequestedProvider(rawProvider) ==
    IF rawProvider.type = "string" THEN trim(toLowerCase(rawProvider.s)) ELSE <<>>

\* lines 325-328
EffectiveProvider(rawProvider) ==
    LET requestedProvider == RequestedProvider(rawProvider)
    IN  IF requestedProvider # <<>> /\ requestedProvider \in allowedProviders
        THEN requestedProvider ELSE activeProvider

\* lines 345-352
ResolvedModel(provider) ==
    IF provider = GROQ THEN GroqModel
    ELSE IF provider = MISTRAL THEN MistralModel
    ELSE IF provider = OPENAI THEN OpenAIModel
    ELSE HeuristicModel

NoResponse == [status |-> 0]
Message(status, message) == [status |-> status, message |-> message]
Results(meta, results) == [status |-> 200, meta |-> meta, results |-> results]
NoRequest == [file |-> FALSE, rules |-> Undefined, provider |-> Undefined]

-----------------------------------------------------------------------------
(* Inputs explored *)

RECURSIVE SeqsUpTo(_, _)
SeqsUpTo(S, n) ==
    IF n = 0 THEN {<<>>}
    ELSE LET shorter == SeqsUpTo(S, n - 1)
         IN  shorter \cup {Append(s, x) : s \in {t \in shorter : Len(t) = n - 1}, x \in S}

\* entries of a submitted rule list: a padded rule with two keywords, a rule
\* with no keyword, a blank string and an entry that is not a string
RuleDates == JString(<<" "," ","M","u","s","t"," ","m","e","n","t","i","o","n"," ","d","a","t","e","s"," ">>)
RuleShort == JString(<<"S","i","g","n"," ","i","t","!">>)
RuleBlank == JString(<<" "," ">>)
RuleNumber == JNumber(70)
RuleItems == {RuleDates, RuleShort}

\* lists with entries the handler drops
MixedLists ==
    {<<RuleBlank>>, <<RuleNumber, RuleBlank>>, <<RuleNumber, RuleShort>>,
     <<RuleBlank, RuleDates, RuleNumber, RuleShort>>}

\* one entry more than the handler keeps
LongList == [i \in 1..(MaxRules + 1) |-> IF i % 2 = 1 THEN RuleDates ELSE RuleShort]

SubmittedLists == SeqsUpTo(RuleItems, MaxShort) \cup MixedLists \cup {LongList}

\* req.body.rules: missing, empty, the JSON text of a list, a repeated form
\* field (an array of strings), the JSON text of something that is no array,
\* and a text that is not JSON
RawRules ==
    {Undefined, JString(<<>>), JString(<<"M","u","s","t"," ","m","e","n","t","i","o","n"," ","d","a","t","e","s">>),
     JArray(<<RuleShort, RuleDates>>),
     JsonText(JNumber(50)), JsonText(JNull), JsonText(RuleShort)}
    \cup {JsonText(JArray(l)) : l \in SubmittedLists}

\* req.body.provider
RawProviders ==
    {Undefined, JString(<<"g","r","o","q">>), JString(<<" ","O","p","e","n","A","I"," ">>), JString(<<"m","i","s","t","r","a","l">>),
     JString(<<"h","e","u","r","i","s","t","i","c">>), JString(<<"b","a","r","d">>)}

Requests == [file : BOOLEAN, rules : RawRules, provider : RawProviders]

\* what parser.getText() settles with
ExtractOutcomes ==
    {Throw,
     Resolve([text |-> Undefined, total |-> 0]),
     Resolve([text |-> JString(<<" ","\n"," ">>), total |-> 1]),
     Resolve([text |-> JString(<<"P","l","a","n"," ","d","a","t","e","s",":"," ","M","a","y"," ","2","0","2","4",".","\n"," ","O","w","n","e","r"," ","i","s"," ","J","a","n","e"," ","R","o","e",".">>),
              total |-> 2]),
     Resolve([text |-> JString(<<"O","w","n","e","r",":"," ","J","a","n","e","NUL"," ","R","o","e","."," ","B","u","d","g","e","t"," ","i","s"," ","5","k","?">>), total |-> 0])}

\* JSON objects an LLM may answer with: a well-formed answer and every answer
\* that differs from it in one member
BaseAnswer ==
    [status |-> JString(<<"P","A","S","S">>), evidence |-> JString(<<"M","a","y"," ","2","0","2","4">>),
     reasoning |-> JString(<<"A"," ","d","a","t","e"," ","i","s"," ","g","i","v","e","n",".">>), confidence |-> JNumber(920),
     rule |-> Undefined]

StatusValues ==
    {JString(<<"p","a","s","s">>), JString(<<"f","a","i","l">>), JString(<<"P","a","s","s","e","d">>), JString(<<>>),
     Undefined, JNull, JNumber(10), JBool(TRUE)}
EvidenceValues ==
    {JString(<<>>), Undefined, JNull, JNumber(420), JNumber(0), JBool(TRUE), JObject}
ReasoningValues == {Undefined, JNumber(70), JObject}
ConfidenceValues ==
    {JNumber(1327), JNumber(-50), JNumber(734), JNumber(725), JNumber(-5),
     JNumber(1000), JNumber(0), JNumber(995), Undefined, JNull, JString(<<"8","0">>)}
RuleValues == {JString(<<"O","t","h","e","r"," ","r","u","l","e">>)}

Answers ==
    {BaseAnswer}
    \cup {[BaseAnswer EXCEPT !.status = v] : v \in StatusValues}
    \cup {[BaseAnswer EXCEPT !.evidence = v] : v \in EvidenceValues}
    \cup {[BaseAnswer EXCEPT !.reasoning = v] : v \in ReasoningValues}
    \cup {[BaseAnswer EXCEPT !.confidence = v] : v \in ConfidenceValues}
    \cup {[BaseAnswer EXCEPT !.rule = v] : v \in RuleValues}

\* text payloads: prose around an answer, and texts with no object in them
Wrapped(answer) == <<Prose, LBrace, Members(answer), RBrace, Prose>>

Garbage ==
    {<<Prose>>, <<Prose, LBrace, Prose>>, <<RBrace, Prose>>, <<RBrace, LBrace>>,
     <<Prose, LBrace, BareMembers, RBrace>>, <<LBrace, Prose, RBrace>>,
     <<LBrace, Members(BaseAnswer), RBrace, Prose, LBrace, Members(BaseAnswer), RBrace>>}

AllTexts == Garbage \cup {<<LBrace, RBrace>>} \cup {Wrapped(a) : a \in Answers}
FewTexts == {Wrapped(BaseAnswer)}

\* response envelopes of each client around a text
Envelopes(client, texts) ==
    IF client = OPENAI
    THEN {[choices |-> <<>>], [choices |-> <<JNull>>]}
         \cup {[choices |-> <<JString(t)>>] : t \in texts}
    ELSE IF client = MISTRAL
    THEN {[choices |-> <<>>], [choices |-> <<JNull>>],
          [choices |-> <<JArray(<<<<LBrace>>, <<Members(BaseAnswer)>>, <<RBrace>>>>)>>]}
         \cup {[choices |-> <<JString(t)>>] : t \in texts}
    ELSE {JNull,
          [type |-> "response", output_text |-> Undefined, output |-> Undefined],
          [type |-> "response", output_text |-> Undefined,
           output |-> JArray(<<<<<<LBrace>>, <<Members(BaseAnswer)>>>>, <<<<RBrace>>>>>>)],
          [type |-> "response", output |-> Undefined,
           output_text |-> JArray(<<<<Prose, LBrace>>, <<RBrace>>>>)]}
         \cup {[type |-> "response", output_text |-> JString(t), output |-> Undefined]
                  : t \in texts}

\* how the awaited call of rule i of an n-rule batch may settle: batches longer
\* than MaxShort are explored with the backend down, and in the others the
\* first call draws from every envelope and the later ones throw or answer well
Replies(client, i, n) ==
    IF n > MaxShort THEN {Throw}
    ELSE IF i = 1 THEN {Throw} \cup {Resolve(v) : v \in Envelopes(client, AllTexts)}
    ELSE {Throw} \cup {Resolve(v) : v \in {w \in Envelopes(client, FewTexts) :
                                                 extractText(client, w) = Wrapped(BaseAnswer)}}

-----------------------------------------------------------------------------
(* The state machine *)

Init ==
    /\ \E env \in Environments :
          LET reg == Startup(env)
          IN  /\ openai = reg.openai
              /\ mistral = reg.mistral
              /\ groq = reg.groq
              /\ activeProvider = reg.activeProvider
              /\ activeModel = reg.activeModel
    /\ pc = "idle"
    /\ req = NoRequest
    /\ normalizedRules = <<>>
    /\ effectiveProvider = <<>>
    /\ documentText = <<>>
    /\ pageCount = JNull
    /\ evaluations = <<>>
    /\ response = NoResponse

registry == <<openai, mistral, groq, activeProvider, activeModel>>

\* the handler up to `await extractTextFromPdf` (lines 287-330)
Receive(r) ==
    /\ pc = "idle"
    /\ req' = r
    /\ documentText' = <<>>
    /\ pageCount' = JNull
    /\ evaluations' = <<>>
    /\ LET parsed == NormalizeRules(ParseRules(r.rules))
           rejection ==
               IF ~r.file THEN Message(400, "PDF file is required.")
               ELSE IF ~FieldTruthy(r.rules)
               THEN Message(400, "At least one rule is required.")
               ELSE IF parsed.threw
               THEN Message(500, "An unexpected error occurred while checking the document.")
               ELSE IF parsed.value = <<>>
               THEN Message(400, "Rules must be non-empty text.")
               ELSE NoResponse
       IN  IF rejection # NoResponse
           THEN /\ response' = rejection
                /\ pc' = "responded"
                /\ normalizedRules' = <<>>
                /\ effectiveProvider' = <<>>
           ELSE /\ response' = NoResponse
                /\ pc' = "extracting"
                /\ normalizedRules' = parsed.value
                /\ effectiveProvider' = EffectiveProvider(r.provider)
    /\ UNCHANGED registry

\* the extraction settles: lines 330-343, or the catch of lines 362-367
ExtractSettle(outcome) ==
    /\ pc = "extracting"
    /\ LET extracted == extractTextFromPdf(outcome)
       IN  IF extracted.threw
           THEN /\ response' = Message(500, "An unexpected error occurred while checking the document.")
                /\ pc' = "responded"
                /\ UNCHANGED <<documentText, pageCount, evaluations>>
           ELSE LET text == truncateText(extracted.value.text)
                IN  /\ documentText' = text
                    /\ pageCount' = extracted.value.pageCount
                    /\ IF text = <<>>
                       THEN /\ response' = Message(422, "Could not extract text from the PDF.")
                            /\ pc' = "responded"
                            /\ UNCHANGED evaluations
                       ELSE /\ evaluations' =
                                   [i \in DOMAIN normalizedRules |->
                                       EvalStart(normalizedRules[i], text, effectiveProvider)]
                            /\ pc' = "evaluating"
                            /\ UNCHANGED response
    /\ UNCHANGED <<req, normalizedRules, effectiveProvider>>
    /\ UNCHANGED registry

\* the awaited backend call of rule i settles and evaluateRuleWithLLM returns
BackendSettle(i, reply) ==
    /\ pc = "evaluating"
    /\ evaluations[i].st = "pending"
    /\ evaluations' = [evaluations EXCEPT ![i] = EvalSettle(@, reply)]
    /\ UNCHANGED <<pc, req, normalizedRules, effectiveProvider, documentText,
                   pageCount, response>>
    /\ UNCHANGED registry

\* Promise.all settles: lines 345-361, or the catch of lines 362-367
\* a handler that answers as soon as one evaluation is over
RespondEarly ==
    /\ pc = "evaluating"
    /\ \E i \in DOMAIN evaluations : evaluations[i].st = "fulfilled"
    /\ response' = Results([pageCount |-> pageCount,
                            model |-> ResolvedModel(effectiveProvider),
                            textLength |-> Len(documentText)],
                           [i \in DOMAIN evaluations |-> evaluations[i].result])
    /\ pc' = "responded"
    /\ UNCHANGED <<openai, mistral, groq, activeProvider, activeModel, req,
                   normalizedRules, effectiveProvider, documentText, pageCount,
                   evaluations>>

Respond ==
    /\ pc = "evaluating"
    /\ \/ \A i \in DOMAIN evaluations : evaluations[i].st = "fulfilled"
       \/ \E i \in DOMAIN evaluations : evaluations[i].st = "rejected"
    /\ response' =
          IF \E i \in DOMAIN evaluations : evaluations[i].st = "rejected"
          THEN Message(500, "An unexpected error occurred while checking the document.")
          ELSE Results([pageCount |-> pageCount,
                        model |-> ResolvedModel(effectiveProvider),
                        textLength |-> Len(documentText)],
                       PromiseAll(evaluations))
    /\ pc' = "responded"
    /\ UNCHANGED <<req, normalizedRules, effectiveProvider, documentText,
                   pageCount, evaluations>>
    /\ UNCHANGED registry

\* the handler has returned: the request and its locals are gone
Finish ==
    /\ pc = "responded"
    /\ pc' = "idle"
    /\ req' = NoRequest
    /\ normalizedRules' = <<>>
    /\ effectiveProvider' = <<>>
    /\ documentText' = <<>>
    /\ pageCount' = JNull
    /\ evaluations' = <<>>
    /\ response' = NoResponse
    /\ UNCHANGED registry

Arrive == \E r \in Requests : Receive(r)

Extracted == \E outcome \in ExtractOutcomes : ExtractSettle(outcome)

BackendReplies ==
    \E i \in {j \in DOMAIN evaluations : evaluations[j].st = "pending"} :
        \E reply \in Replies(evaluations[i].invoked[1], i, Len(evaluations)) :
            BackendSettle(i, reply)

Next ==
    \/ Arrive
    \/ Extracted
    \/ BackendReplies
    \/ Respond
    \/ Finish

Spec == Init /\ [][Next]_vars

\* The handler with every awaited operation settling in the end: the PDF
\* parser runs to its end or throws, every call of a client returns or throws,
\* and the continuation after Promise.all runs once the promises are fulfilled.
\* What a call returns has no part in this, so each call throws, returns no
\* text or returns the well-formed answer.
FewReplies(client, n) ==
    IF n > MaxShort THEN {Throw}
    ELSE {Throw} \cup {Resolve(v) : v \in Envelopes(client, FewTexts)}

BackendRepliesFew ==
    \E i \in {j \in DOMAIN evaluations : evaluations[j].st = "pending"} :
        \E reply \in FewReplies(evaluations[i].invoked[1], Len(evaluations)) :
            BackendSettle(i, reply)

FairNext ==
    \/ Arrive
    \/ Extracted
    \/ BackendRepliesFew
    \/ Respond
    \/ Finish

AwaitSettles == Extracted \/ BackendRepliesFew \/ Respond

FairSpec == Init /\ [][FairNext]_vars /\ WF_vars(AwaitSettles)

-----------------------------------------------------------------------------
(* The heuristic evaluated on its own: a server with no client, one rule made
   of a list of words and one document made of a list of sentences *)

MaxWords == 7
MaxSentences == 2

\* two words of five letters that can be keywords, one with a capital
WordPool == {<<"D","a","t","e","s">>, <<"o","w","n","e","r">>}

\* a sentence with no word of the pool but "plan", one with "dates" inside a
\* longer word and a full stop that ends no sentence, one with "owner" in
\* capitals, and a sentence that reads as the sentinel does
SentencePool ==
    {<<"P","l","a","n"," ","i","s"," ","s","e","t",".">>, <<"U","p","d","a","t","e","s"," ","v","1",".","2"," ","d","u","e","!">>, <<"T","h","e"," ","O","W","N","E","R"," ","s","i","g","n","s","?">>, NoEvidence}

RuleOf(words) == <<" "," ">> \o join(words, <<","," ">>) \o <<"."," ">>

RECURSIVE DocumentOf(_)
DocumentOf(sentences) ==
    IF Len(sentences) = 0 THEN <<>>
    ELSE IF Len(sentences) = 1 THEN sentences[1]
    ELSE sentences[1] \o (IF Len(sentences) % 2 = 0 THEN <<" ">> ELSE <<" "," ">>)
             \o DocumentOf(Tail(sentences))

\* rules with a word of four letters, a word no document has, the words of the
\* sentinel, and long words among short ones
FewWordLists ==
    {<<<<"D","a","t","e","s">>>>, <<<<"o","w","n","e","r">>, <<"D","a","t","e","s">>>>, <<<<"p","l","a","n">>>>, <<<<"b","u","d","g","e","t">>>>,
     <<<<"d","i","r","e","c","t">>, <<"e","v","i","d","e","n","c","e">>, <<"f","o","u","n","d">>>>,
     <<<<"p","l","a","n">>, <<"D","a","t","e","s">>, <<"p","l","a","n">>, <<"b","u","d","g","e","t">>, <<"o","w","n","e","r">>>>,
     <<<<"p","l","a","n">>, <<"o","w","n","e","r">>, <<"p","l","a","n">>, <<"o","w","n","e","r">>, <<"p","l","a","n">>, <<"o","w","n","e","r">>, <<"o","w","n","e","r">>,
       <<"p","l","a","n">>, <<"D","a","t","e","s">>, <<"D","a","t","e","s">>, <<"D","a","t","e","s">>>>}

FewSentenceLists ==
    {<<<<"P","l","a","n"," ","i","s"," ","s","e","t",".">>>>, <<<<"U","p","d","a","t","e","s"," ","v","1",".","2"," ","d","u","e","!">>>>, <<<<"T","h","e"," ","O","W","N","E","R"," ","s","i","g","n","s","?">>>>,
     <<<<"U","p","d","a","t","e","s"," ","v","1",".","2"," ","d","u","e","!">>, <<"T","h","e"," ","O","W","N","E","R"," ","s","i","g","n","s","?">>>>}

HeuristicInputs ==
    (SeqsUpTo(WordPool, MaxWords) \X FewSentenceLists)
    \cup (FewWordLists \X (SeqsUpTo(SentencePool, MaxSentences) \ {<<>>}))

HeuristicInit ==
    /\ openai = NoProvider.openai
    /\ mistral = NoProvider.mistral
    /\ groq = NoProvider.groq
    /\ activeProvider = NoProvider.activeProvider
    /\ activeModel = NoProvider.activeModel
    /\ pc = "heuristic"
    /\ \E in \in HeuristicInputs :
          /\ req = [words |-> in[1], sentences |-> in[2]]
          /\ normalizedRules = <<trim(RuleOf(in[1]))>>
          /\ documentText = DocumentOf(in[2])
    /\ effectiveProvider = activeProvider
    /\ pageCount = JNull
    /\ evaluations = <<>>
    /\ response = NoResponse

\* evaluateRuleWithLLM(rule, documentText, effectiveProvider) with no client
\* (lines 164-171)
HeuristicEvaluate ==
    /\ pc = "heuristic"
    /\ evaluations = <<>>
    /\ evaluations' = [i \in DOMAIN normalizedRules |->
                          EvalStart(normalizedRules[i], documentText, effectiveProvider)]
    /\ UNCHANGED <<registry, pc, req, normalizedRules, effectiveProvider,
                   documentText, pageCount, response>>

HeuristicSpec == HeuristicInit /\ [][HeuristicEvaluate]_vars

-----------------------------------------------------------------------------
(* Properties *)

VerdictFields == {"rule", "status", "evidence", "reasoning", "confidence", "source"}

Settled == {i \in DOMAIN evaluations : evaluations[i].st = "fulfilled"}

HasResults == pc = "responded" /\ response.status = 200

\* the backend call of rule i was made and failed: it threw or gave no text
CallFailed(i) == evaluations[i].call \in {"threw", "empty"}

\* C1: evaluateRuleWithLLM never rejects and every settled evaluation carries a
\* verdict; a request whose evaluations were started is answered with results;
\* and when every backend call of a batch failed, the batch has one verdict per
\* evaluated rule (1 to 10 of them), each with source "heuristic".
C1_TotalAvailability ==
    /\ \A i \in DOMAIN evaluations :
          /\ evaluations[i].st \in {"pending", "fulfilled"}
          /\ evaluations[i].st = "fulfilled" =>
                DOMAIN evaluations[i].result = VerdictFields
    /\ (pc = "responded" /\ evaluations # <<>>) => response.status = 200
    /\ (HasResults /\ \A i \in DOMAIN evaluations : CallFailed(i)) =>
          /\ Len(response.results) = Len(normalizedRules)
          /\ Len(response.results) \in 1..10
          /\ \A i \in DOMAIN response.results :
                response.results[i].source = HEURISTIC

\* C1 witness: a batch of 10 rules, every backend call of which threw, has
\* been answered.
C1_Witness ==
    /\ HasResults
    /\ Len(response.results) = 10
    /\ \A i \in DOMAIN evaluations : evaluations[i].call = "threw"

\* C2: the i-th result is the verdict of the i-th rule, while the calls are in
\* flight and in the response, whatever the backend answered.
C2_OrderPreserved ==
    /\ \A i \in Settled : evaluations[i].result.rule = normalizedRules[i]
    /\ HasResults =>
          /\ Len(response.results) = Len(normalizedRules)
          /\ \A i \in DOMAIN response.results :
                response.results[i].rule = normalizedRules[i]

\* C2 witness: a two-rule batch was answered by a backend, both verdicts are in
\* the response, and the answer to the first rule named another rule.
C2_Witness ==
    /\ HasResults
    /\ Len(response.results) = 2
    /\ response.results[1].rule # response.results[2].rule
    /\ evaluations[1].call = "text" /\ evaluations[2].call = "text"
    /\ \E j \in DOMAIN evaluations[1].content :
          /\ evaluations[1].content[j].lex = "members"
          /\ evaluations[1].content[j].obj.rule.type = "string"
    /\ response.results[1].source # HEURISTIC
    /\ response.results[2].source # HEURISTIC

\* the entries of the submitted list that are rules: non-blank strings
SubmittedRules ==
    LET parsed == ParseRules(req.rules)
    IN  IF parsed.type = "array"
        THEN SelectSeq(parsed.items,
                       LAMBDA x : x.type = "string" /\ \E k \in DOMAIN x.s :
                                                          x.s[k] \notin WhiteSpace)
        ELSE <<>>

\* C3 as stated: a response with results has exactly one verdict per submitted
\* rule, in order.
C3_OnePerSubmittedRule ==
    HasResults =>
        /\ Len(response.results) = Len(SubmittedRules)
        /\ \A i \in DOMAIN response.results :
              response.results[i].rule = trim(SubmittedRules[i].s)

\* C3 amended: a response with results has exactly one verdict for each of the
\* first 10 submitted rules, in order, and none for a later one.
C3_OnePerKeptRule ==
    HasResults =>
        /\ Len(response.results) =
              (IF Len(SubmittedRules) < 10 THEN Len(SubmittedRules) ELSE 10)
        /\ \A i \in DOMAIN response.results :
              response.results[i].rule = trim(SubmittedRules[i].s)

\* C3 witness: eleven rules were submitted and ten verdicts returned.
C3_Witness ==
    /\ HasResults
    /\ Len(SubmittedRules) = 11
    /\ Len(response.results) = 10

IsString(v) == DOMAIN v = {"type", "s"} /\ v.type = "string"

WellTyped(v) ==
    /\ DOMAIN v = VerdictFields
    /\ v.status \in {PASS, FAIL}
    /\ IsString(v.evidence)
    /\ IsString(v.reasoning)
    /\ v.confidence \in 0..100
    /\ v.source \in {GROQ, MISTRAL, OPENAI, HEURISTIC}

\* C4 as stated: every verdict, from whichever path, has its six fields and
\* each is of its type.
C4_WellTyped ==
    /\ \A i \in Settled : WellTyped(evaluations[i].result)
    /\ HasResults => \A i \in DOMAIN response.results : WellTyped(response.results[i])

\* a backend is usable when its client exists; the heuristic always is
Configured(b) ==
    \/ b = HEURISTIC
    \/ b = OPENAI /\ openai
    \/ b = MISTRAL /\ mistral
    \/ b = GROQ /\ groq

\* the backend C5 selects for the request
SelectedBackend ==
    LET requested == RequestedProvider(req.provider)
    IN  IF requested \in {GROQ, MISTRAL, OPENAI, HEURISTIC} /\ Configured(requested)
        THEN requested ELSE activeProvider

\* C5 as stated: the rules are evaluated by the requested backend if it is
\* valid and configured and by the default backend otherwise; the heuristic is
\* used directly only when that backend is "heuristic" or no client exists.
C5_BackendSelection ==
    \A i \in DOMAIN evaluations :
        IF SelectedBackend = HEURISTIC \/ (~openai /\ ~mistral /\ ~groq)
        THEN evaluations[i].invoked = <<>>
        ELSE evaluations[i].invoked = <<SelectedBackend>>

\* C6 as stated: when the extraction fails the request is answered 422 and no
\* evaluation is started.
C6_ExtractionFailure ==
    [][(pc = "extracting" /\ pc' = "responded") =>
          (response'.status = 422 /\ evaluations' = <<>>)]_vars

\* the text has no '{' or no '}'
NoBracePair(content) ==
    \/ \A j \in DOMAIN content : content[j] # LBrace
    \/ \A j \in DOMAIN content : content[j] # RBrace

\* the text from its first '{' to its last '}'
FirstToLast(content) ==
    LET opening == {j \in DOMAIN content : content[j] = LBrace}
        closing == {j \in DOMAIN content : content[j] = RBrace}
    IN  SubSeq(content, CHOOSE j \in opening : \A k \in opening : j <= k,
                        CHOOSE j \in closing : \A k \in closing : k <= j)

\* the text holds no JSON object: no brace pair, or what the braces span is not JSON
NoJsonObject(content) ==
    NoBracePair(content) \/ JSONparse(FirstToLast(content)).threw

\* the evaluations whose backend call returned a text
Answered == {i \in Settled : evaluations[i].call = "text"}

\* C7: normalizing a text with no '{' or no '}', or whose span from the first
\* '{' to the last '}' is not valid JSON, gives the fallback verdict, every
\* field unchanged.
C7_FallbackUnchanged ==
    \A i \in Answered :
        NoJsonObject(evaluations[i].content) =>
            evaluations[i].result = evaluations[i].fallback

\* C7 witness: a backend answered with unquoted keys between braces and the
\* verdict is the fallback.
C7_Witness ==
    \E i \in Answered :
        /\ ~NoBracePair(evaluations[i].content)
        /\ \E j \in DOMAIN evaluations[i].content :
              evaluations[i].content[j] = BareMembers
        /\ evaluations[i].result = evaluations[i].fallback
        /\ evaluations[i].result.source = HEURISTIC

\* min(100, max(0, round(c))) of a number given in tenths, halves rounding up
ClampedRound(tenths) ==
    LET r == CHOOSE k \in -1000..1000 : 10 * k - 5 <= tenths /\ tenths < 10 * k + 5
    IN  IF r > 100 THEN 100 ELSE IF r < 0 THEN 0 ELSE r

\* C8 as stated: for every answer that parses as a JSON object, the normalized
\* confidence is min(100, max(0, round(c))) when its confidence c is a number
\* and the fallback's confidence otherwise.
C8_ConfidenceClamped ==
    \A i \in Answered :
        ~NoJsonObject(evaluations[i].content) =>
            LET c == JSONparse(FirstToLast(evaluations[i].content)).value.confidence
            IN  IF c.type = "number"
                THEN evaluations[i].result.confidence = ClampedRound(c.n10)
                ELSE evaluations[i].result.confidence =
                         evaluations[i].fallback.confidence

\* the rule has no run of five or more letters and digits
NoKeyword(rule) ==
    LET low == toLowerCase(rule)
    IN  ~\E k \in DOMAIN low :
            /\ k + 4 <= Len(low)
            /\ \A j \in k..(k + 4) : IsAlnum(low[j])

HeuristicLaw(v) ==
    /\ v.source = HEURISTIC
    /\ v.status \in {PASS, FAIL}
    /\ v.status = PASS => v.confidence = 55
    /\ v.status = FAIL => v.confidence = 35

\* C9: every heuristic verdict has source "heuristic" and confidence 55 on pass,
\* 35 on fail; a rule with no keyword gets fail with confidence 35.
C9_HeuristicConfidence ==
    /\ \A i \in DOMAIN evaluations :
          /\ HeuristicLaw(evaluations[i].fallback)
          /\ NoKeyword(normalizedRules[i]) =>
                /\ evaluations[i].fallback.status = FAIL
                /\ evaluations[i].fallback.confidence = 35
    /\ \A i \in Settled :
          evaluations[i].result.source = HEURISTIC =>
              HeuristicLaw(evaluations[i].result)

\* C9 witness: a batch answered by the heuristic holds a rule with no keyword
\* (fail, 35) and a rule that passed (55).
C9_Witness ==
    /\ HasResults
    /\ \E i \in DOMAIN response.results :
          /\ NoKeyword(normalizedRules[i])
          /\ response.results[i].source = HEURISTIC
          /\ response.results[i].status = FAIL
          /\ response.results[i].confidence = 35
    /\ \E i \in DOMAIN response.results :
          /\ response.results[i].source = HEURISTIC
          /\ response.results[i].status = PASS
          /\ response.results[i].confidence = 55

\* C10 as stated: meta.model is "heuristic" whenever no backend was invoked for
\* the rules, and a backend's model only when that backend was invoked for them.
C10_ModelIsEffective ==
    HasResults =>
        /\ (\A i \in DOMAIN evaluations : evaluations[i].invoked = <<>>) =>
              response.meta.model = HeuristicModel
        /\ \A b \in {GROQ, MISTRAL, OPENAI} :
              response.meta.model = ResolvedModel(b) =>
                  \A i \in DOMAIN evaluations : evaluations[i].invoked = <<b>>

\* C11 as stated: whenever the text holds a parseable JSON object, the
\* normalized status is "pass" if the object's status is a string that equals
\* "pass" without regard to case, and "fail" for every other status value; it is
\* never the fallback's status.
C11_StatusConservative ==
    \A i \in Answered :
        ~NoJsonObject(evaluations[i].content) =>
            LET s == JSONparse(FirstToLast(evaluations[i].content)).value.status
            IN  evaluations[i].result.status =
                    (IF s.type = "string" /\ toLowerCase(s.s) = PASS
                     THEN PASS ELSE FAIL)

\* ---- C12 ----
HeuristicVerdict == evaluations[1].result
HeuristicDone == pc = "heuristic" /\ evaluations # <<>>

\* the keywords read off the words the rule was made of
LongWords(words) == SelectSeq(words, LAMBDA w : Len(w) > 4)
FirstSix(s) == SubSeq(s, 1, IF Len(s) < 6 THEN Len(s) ELSE 6)
ExpectedKeywords(words) ==
    [i \in DOMAIN FirstSix(LongWords(words)) |->
        toLowerCase(FirstSix(LongWords(words))[i])]
Occurring(keywords, text) ==
    {i \in DOMAIN keywords : includes(toLowerCase(text), keywords[i])}
ThresholdTable(n) == IF n <= 2 THEN 1 ELSE IF n <= 5 THEN 2 ELSE 3

\* C12: the heuristic status is pass if and only if the number of keywords
\* (the first at most six lowercase alphanumeric words of the rule longer than
\* four characters) that occur in the lowercased document reaches the threshold
\* (1 for 0..2 keywords, 2 for 3..5, 3 for 6), and otherwise fail.
C12_PassRule ==
    HeuristicDone =>
        LET keywords == ExpectedKeywords(req.words)
            matches == Cardinality(Occurring(keywords, documentText))
        IN  HeuristicVerdict.status =
                (IF matches >= ThresholdTable(Len(keywords)) THEN PASS ELSE FAIL)

\* a rule of seven long words that fails with two of its first six in the
\* document, while three of the seven are in it
C12_Witness ==
    /\ HeuristicDone
    /\ Len(LongWords(req.words)) = 7
    /\ HeuristicVerdict.status = FAIL
    /\ Cardinality(Occurring(ExpectedKeywords(req.words), documentText)) = 2
    /\ includes(toLowerCase(documentText), toLowerCase(LongWords(req.words)[7]))

\* ---- C13 ----
MatchedKeywords ==
    LET keywords == ExpectedKeywords(req.words)
    IN  {keywords[i] : i \in Occurring(keywords, documentText)}
\* the sentences the document was made of that contain a matched keyword
SentencesWithMatch ==
    {i \in DOMAIN req.sentences :
        \E k \in MatchedKeywords : includes(toLowerCase(req.sentences[i]), k)}
FirstSentenceWithMatch ==
    req.sentences[CHOOSE i \in SentencesWithMatch :
                      \A j \in SentencesWithMatch : i <= j]
EvidenceIsFirstSentenceWithMatch ==
    MatchedKeywords # {} =>
        /\ SentencesWithMatch # {}
        /\ HeuristicVerdict.evidence = JString(FirstSentenceWithMatch)

\* C13 as stated: the evidence is the first sentence of the document that
\* contains a matched keyword, it is the sentinel exactly when no keyword
\* matched, and a verdict with status pass never carries the sentinel.
C13_SentinelExactly ==
    HeuristicDone =>
        /\ EvidenceIsFirstSentenceWithMatch
        /\ (HeuristicVerdict.evidence = JString(NoEvidence)) <=> (MatchedKeywords = {})
        /\ HeuristicVerdict.status = PASS => HeuristicVerdict.evidence # JString(NoEvidence)

\* C13 amended: the evidence is the first sentence of the document that
\* contains a matched keyword when some keyword matched, and the sentinel when
\* none did; a verdict with status pass has a matched keyword, so its evidence
\* is a sentence of the document, and that sentence reads as the sentinel only
\* if the document holds it.
C13_FirstSentenceOrSentinel ==
    HeuristicDone =>
        /\ EvidenceIsFirstSentenceWithMatch
        /\ MatchedKeywords = {} => HeuristicVerdict.evidence = JString(NoEvidence)
        /\ HeuristicVerdict.status = PASS => MatchedKeywords # {}
        /\ (HeuristicVerdict.evidence = JString(NoEvidence) /\ MatchedKeywords # {})
               => \E i \in DOMAIN req.sentences : req.sentences[i] = NoEvidence

\* the keyword is in the second sentence only, and the second is the evidence
C13_Witness ==
    /\ HeuristicDone
    /\ Len(req.sentences) = 2
    /\ SentencesWithMatch = {2}
    /\ HeuristicVerdict.evidence = JString(req.sentences[2])
    /\ HeuristicVerdict.status = PASS

\* ---- C14 ----
AtMostOneCall(e) == Len(e.invoked) <= 1
EndsWithFallback(e) ==
    e.call \in {"threw", "empty"} =>
        /\ e.st = "fulfilled"
        /\ e.result = e.fallback
        /\ e.result.source = HEURISTIC

\* C14: within one request every evaluation calls a client at most once; an
\* evaluation whose call threw or returned no text is over with the heuristic
\* verdict computed beforehand, and an evaluation that is over never changes
\* (so it calls no client again) while the request lasts.
C14_NoRetry ==
    [][ /\ \A i \in DOMAIN evaluations' :
              /\ AtMostOneCall(evaluations'[i])
              /\ EndsWithFallback(evaluations'[i])
        /\ \A i \in Settled :
              evaluations' # <<>> =>
                  /\ i \in DOMAIN evaluations'
                  /\ evaluations'[i] = evaluations[i] ]_vars

\* one call of a batch returned no text and another threw; both rules got
\* the heuristic verdict after one call each
C14_Witness ==
    /\ HasResults
    /\ \E i, j \in Settled :
          /\ evaluations[i].call = "empty"
          /\ evaluations[j].call = "threw"
          /\ Len(evaluations[i].invoked) = 1
          /\ Len(evaluations[j].invoked) = 1
          /\ response.results[i].source = HEURISTIC
          /\ response.results[j].source = HEURISTIC

\* ---- C15 ----
Unsettled == {i \in DOMAIN evaluations : evaluations[i].st = "pending"}
Accepted == pc \in {"extracting", "evaluating"}

\* C15: the results are sent only when every evaluation of the request is
\* over, and while one call is outstanding nothing is sent; a response once
\* sent stays as it is until the handler returns; and, every awaited call
\* returning or throwing in the end, every accepted request is answered.
C15_BatchCompletion ==
    /\ [](HasResults =>
             /\ Unsettled = {}
             /\ Settled = DOMAIN evaluations
             /\ Len(response.results) = Len(evaluations))
    /\ [](Unsettled # {} => (pc = "evaluating" /\ response = NoResponse))
    /\ [][response # NoResponse => (response' = response \/ pc' = "idle")]_vars
    /\ (Accepted ~> pc = "responded")

\* a batch of two rules answered after both of its calls returned
C15_Witness ==
    /\ HasResults
    /\ Len(evaluations) = 2
    /\ \A i \in DOMAIN evaluations :
          evaluations[i].st = "fulfilled" /\ Len(evaluations[i].invoked) = 1

\* ---- C16 ----
\* the text of evaluation i holds a JSON object whose status can be normalized
YieldsVerdict(i) ==
    /\ ~NoJsonObject(evaluations[i].content)
    /\ JSONparse(FirstToLast(evaluations[i].content)).value.status.type
           \in {"string", "undefined", "null"}

\* the client of the request's effective backend was called for rule i and
\* returned a text that yielded a verdict
FromBackend(i) ==
    /\ effectiveProvider \in {OPENAI, MISTRAL, GROQ}
    /\ evaluations[i].invoked = <<effectiveProvider>>
    /\ evaluations[i].call = "text"
    /\ evaluations[i].content # <<>>
    /\ YieldsVerdict(i)

\* C16: a verdict carries a backend's name as its source only if that backend
\* is the request's effective backend, its client was called for the rule and
\* returned a non-empty text, and the text yielded a verdict from a JSON
\* object; every other verdict has source "heuristic" and equals, field for
\* field, the heuristic verdict for the rule and the document.
C16_SourceProvenance ==
    /\ [](\A i \in Settled :
             IF FromBackend(i)
             THEN evaluations[i].result.source = effectiveProvider
             ELSE /\ evaluations[i].result.source = HEURISTIC
                  /\ evaluations[i].result = evaluations[i].fallback)
    /\ [][(evaluations = <<>> /\ evaluations' # <<>>) =>
             \A i \in DOMAIN evaluations' :
                 evaluations'[i].fallback =
                     buildFallbackResult(normalizedRules'[i], documentText')]_vars
    /\ [][(evaluations # <<>> /\ evaluations' # <<>>) =>
             /\ UNCHANGED <<normalizedRules, documentText>>
             /\ \A i \in DOMAIN evaluations :
                    evaluations'[i].fallback = evaluations[i].fallback]_vars

\* one batch holds a verdict from the backend and a heuristic verdict given
\* for a text that yielded none
C16_Witness ==
    /\ HasResults
    /\ \E i, j \in Settled :
          /\ FromBackend(i)
          /\ response.results[i].source = effectiveProvider
          /\ evaluations[j].call = "text"
          /\ ~FromBackend(j)
          /\ response.results[j].source = HEURISTIC

\* ---- C17 ----
Backends == {OPENAI, MISTRAL, GROQ}
Instantiated == {b \in Backends : Configured(b)}

\* C17: at most one of the three clients is instantiated, activeProvider names
\* exactly that client and is "heuristic" exactly when there is none, and no
\* step of request handling changes activeProvider, activeModel or a client.
C17_RegistryInvariant ==
    /\ [](/\ Cardinality(Instantiated) <= 1
          /\ activeProvider \in Backends \cup {HEURISTIC}
          /\ \A b \in Backends : (activeProvider = b) <=> (b \in Instantiated)
          /\ (activeProvider = HEURISTIC) <=> (Instantiated = {}))
    /\ [][UNCHANGED registry]_vars

\* a server whose only client is groq has answered a request that named
\* mistral, and groq is still its only client and its default
C17_Witness ==
    /\ HasResults
    /\ effectiveProvider = MISTRAL
    /\ Instantiated = {GROQ}
    /\ activeProvider = GROQ

=============================================================================
